---- MODULE Spec2Model ----
(***************************************************************************)
(* Model of lib/department.py: the Department class, its process-wide      *)
(* identity cache Department.all and the departments table it maps to.     *)
(*                                                                         *)
(* The heap of Department instances is the sequence objs; a reference to   *)
(* an instance is its index in objs, so reference equality ("is") is       *)
(* equality of indices.  Python's None is modelled by 0 for ids and        *)
(* references and by the empty tuple for a row.                            *)
(***************************************************************************)
EXTENDS Integers, Sequences, FiniteSets, TLC

\* Bounds of the model.
MaxObj == 2     \* instances ever constructed in one process
MaxId == 2      \* largest primary key the table hands out

None == 0
NoRow == <<>>
Unset == -1

Names == {"a", "b"}
Locations == {"x", "y"}
Ids == 1..MaxId
Rows == Ids \X Names \X Locations

VARIABLES
    tableExists,   \* the departments table exists in the database
    departments,   \* the rows of the table, a set of <<id, name, location>>
    all,           \* Department.all: id -> reference
    objs,          \* the heap: reference -> [id, name, location]
    last,          \* the most recent call: its name, receiver, arguments, outcome
    prev,          \* the call that preceded the most recent find_by_id
    probe,         \* for one id: what find_by_id last returned, and calls since
    pure           \* whether only create/delete/get_all ran on a table that
                   \* started empty, and the created instances not yet deleted

vars == <<tableExists, departments, all, objs, last, prev, probe, pure>>

----------------------------------------------------------------------------
\* Helpers on mappings and rows.

Put(f, k, v) == [x \in DOMAIN f \cup {k} |-> IF x = k THEN v ELSE f[x]]

Pop(f, k) == [x \in DOMAIN f \ {k} |-> f[x]]

EmptyMap == [x \in {} |-> None]

RowIds(rows) == {r[1] : r \in rows}

RowWithId(rows, k) == {r \in rows : r[1] = k}

MinId(S) == CHOOSE k \in S : \A j \in S : k <= j

MaxRowId(rows) == CHOOSE k \in RowIds(rows) : \A j \in RowIds(rows) : j <= k

\* INTEGER PRIMARY KEY: the key of an inserted row is one more than the
\* largest key in the table, 1 for an empty table (CURSOR.lastrowid).
lastrowid(rows) == IF rows = {} THEN 1 ELSE MaxRowId(rows) + 1

\* cursor.fetchone(): the first row of a result set (lowest key), or None.
fetchone(S) == IF S = {} THEN NoRow ELSE CHOOSE r \in S : r[1] = MinId(RowIds(S))

\* cursor.fetchall(): the rows of a result set in key order.
RECURSIVE fetchall(_)
fetchall(S) ==
    IF S = {} THEN <<>>
    ELSE LET r == fetchone(S) IN <<r>> \o fetchall(S \ {r})

\* Department.__init__
Department(name, location, id) == [id |-> id, name |-> name, location |-> location]

Refs == 1..Len(objs)

----------------------------------------------------------------------------
\* The methods as functions of (table rows, cache, heap); each yields the
\* rows, cache and heap after the call and the value returned.

Result(rows, cache, heap, ret) ==
    [departments |-> rows, all |-> cache, objs |-> heap, ret |-> ret]

\* Variant of save: the instance is registered before self.id is assigned,
\* so under the id it had.
save_stale_key(self, rows, cache, heap) ==
    LET id == lastrowid(rows) IN
    Result(rows \cup {<<id, heap[self].name, heap[self].location>>},
           Put(cache, heap[self].id, self),
           [heap EXCEPT ![self].id = id],
           None)

\* Variant of save: the entry under the id the instance had is dropped.
save_rekey(self, rows, cache, heap) ==
    LET id == lastrowid(rows) IN
    Result(rows \cup {<<id, heap[self].name, heap[self].location>>},
           Put(Pop(cache, heap[self].id), id, self),
           [heap EXCEPT ![self].id = id],
           None)

\* save(): INSERT, then self.id = lastrowid, then Department.all[self.id] = self
save(self, rows, cache, heap) ==
    LET id == lastrowid(rows) IN
    Result(rows \cup {<<id, heap[self].name, heap[self].location>>},
           Put(cache, id, self),
           [heap EXCEPT ![self].id = id],
           None)

\* Variant of create: the instance is inserted but never registered.
create_unregistered(name, location, rows, cache, heap) ==
    LET department == Len(heap) + 1
        id == lastrowid(rows)
    IN  Result(rows \cup {<<id, name, location>>},
               cache,
               Append(heap, Department(name, location, id)),
               department)

\* create(): cls(name, location) then save()
create(name, location, rows, cache, heap) ==
    LET department == Len(heap) + 1
        r == save(department, rows, cache,
                  Append(heap, Department(name, location, None)))
    IN  [r EXCEPT !.ret = department]

\* Variant of update: SET name = ? only.
update_name_only(self, rows, cache, heap) ==
    LET o == heap[self] IN
    Result({IF r[1] = o.id THEN <<r[1], o.name, r[3]>> ELSE r : r \in rows},
           IF o.id \in DOMAIN cache THEN Put(cache, o.id, self) ELSE cache,
           heap,
           None)

\* Variant of update: the cache entry is left as it is.
update_no_rebind(self, rows, cache, heap) ==
    LET o == heap[self] IN
    Result({IF r[1] = o.id THEN <<r[1], o.name, o.location>> ELSE r : r \in rows},
           cache,
           heap,
           None)

\* Variant of update: the instance is registered whether or not its id is a key.
update_registers(self, rows, cache, heap) ==
    LET o == heap[self] IN
    Result({IF r[1] = o.id THEN <<r[1], o.name, o.location>> ELSE r : r \in rows},
           Put(cache, o.id, self),
           heap,
           None)

\* update(): UPDATE ... WHERE id = self.id, then rebind the cache entry if present
update(self, rows, cache, heap) ==
    LET o == heap[self] IN
    Result({IF r[1] = o.id THEN <<r[1], o.name, o.location>> ELSE r : r \in rows},
           IF o.id \in DOMAIN cache THEN Put(cache, o.id, self) ELSE cache,
           heap,
           None)

\* Variant of delete: the cache entry is not removed.
delete_keep_cache(self, rows, cache, heap) ==
    Result({r \in rows : r[1] # heap[self].id},
           cache,
           [heap EXCEPT ![self].id = None],
           None)

\* Variant of delete: every instance holding the id has its id cleared.
delete_clears_twins(self, rows, cache, heap) ==
    LET id_to_delete == heap[self].id IN
    Result({r \in rows : r[1] # id_to_delete},
           Pop(cache, id_to_delete),
           [o \in DOMAIN heap |->
               IF heap[o].id = id_to_delete THEN [heap[o] EXCEPT !.id = None]
               ELSE heap[o]],
           None)

\* delete(): DELETE ... WHERE id = self.id, pop the id from the cache, clear self.id
delete(self, rows, cache, heap) ==
    LET id_to_delete == heap[self].id IN
    Result({r \in rows : r[1] # id_to_delete},
           Pop(cache, id_to_delete),
           [heap EXCEPT ![self].id = None],
           None)

\* Variant of instance_from_db: the new instance is not registered.
instance_from_db_unregistered(row, rows, cache, heap) ==
    IF row = NoRow THEN Result(rows, cache, heap, None)
    ELSE IF row[1] \in DOMAIN cache THEN Result(rows, cache, heap, cache[row[1]])
    ELSE Result(rows, cache, Append(heap, Department(row[2], row[3], row[1])),
                Len(heap) + 1)

\* Variant of instance_from_db: no cache check, a new instance every time.
instance_from_db_rebind(row, rows, cache, heap) ==
    IF row = NoRow THEN Result(rows, cache, heap, None)
    ELSE Result(rows,
                Put(cache, row[1], Len(heap) + 1),
                Append(heap, Department(row[2], row[3], row[1])),
                Len(heap) + 1)

\* Variant of instance_from_db: the cached instance is refreshed from the row.
instance_from_db_refresh(row, rows, cache, heap) ==
    IF row = NoRow THEN Result(rows, cache, heap, None)
    ELSE IF row[1] \in DOMAIN cache
    THEN Result(rows, cache,
                [heap EXCEPT ![cache[row[1]]].name = row[2],
                             ![cache[row[1]]].location = row[3]],
                cache[row[1]])
    ELSE Result(rows,
                Put(cache, row[1], Len(heap) + 1),
                Append(heap, Department(row[2], row[3], row[1])),
                Len(heap) + 1)

\* instance_from_db(row)
instance_from_db(row, rows, cache, heap) ==
    IF row = NoRow THEN Result(rows, cache, heap, None)
    ELSE IF row[1] \in DOMAIN cache THEN Result(rows, cache, heap, cache[row[1]])
    ELSE LET department == Len(heap) + 1 IN
         Result(rows,
                Put(cache, row[1], department),
                Append(heap, Department(row[2], row[3], row[1])),
                department)

\* [cls.instance_from_db(row) for row in rows]
RECURSIVE map_rows(_, _, _, _)
map_rows(seq, rows, cache, heap) ==
    IF seq = <<>> THEN Result(rows, cache, heap, <<>>)
    ELSE LET h == instance_from_db(Head(seq), rows, cache, heap)
             t == map_rows(Tail(seq), rows, h.all, h.objs)
         IN  [t EXCEPT !.ret = <<h.ret>> \o t.ret]

\* Variant of get_all: fetchone() in place of fetchall(), one row at most.
get_all_first_row(rows, cache, heap) ==
    map_rows(IF rows = {} THEN <<>> ELSE <<fetchone(rows)>>, rows, cache, heap)

\* get_all(): SELECT * FROM departments
get_all(rows, cache, heap) == map_rows(fetchall(rows), rows, cache, heap)

\* Variant of find_by_id: the cache is not consulted first.
find_by_id_query_first(id_, rows, cache, heap) ==
    instance_from_db(fetchone(RowWithId(rows, id_)), rows, cache, heap)

\* Variant of find_by_id: a cached id whose row is gone is evicted.
find_by_id_evict(id_, rows, cache, heap) ==
    IF id_ \in DOMAIN cache /\ RowWithId(rows, id_) = {}
    THEN Result(rows, Pop(cache, id_), heap, None)
    ELSE IF id_ \in DOMAIN cache THEN Result(rows, cache, heap, cache[id_])
    ELSE instance_from_db(fetchone(RowWithId(rows, id_)), rows, cache, heap)

\* find_by_id(id_): cache first, else SELECT ... WHERE id = ?
find_by_id(id_, rows, cache, heap) ==
    IF id_ \in DOMAIN cache THEN Result(rows, cache, heap, cache[id_])
    ELSE instance_from_db(fetchone(RowWithId(rows, id_)), rows, cache, heap)

\* Variant of find_by_name: a cached instance of that name is returned first.
find_by_name_cache_first(name, rows, cache, heap) ==
    LET hits == {k \in DOMAIN cache : heap[cache[k]].name = name} IN
    IF hits # {} THEN Result(rows, cache, heap, cache[MinId(hits)])
    ELSE instance_from_db(fetchone({r \in rows : r[2] = name}), rows, cache, heap)

\* find_by_name(name): SELECT ... WHERE name = ?
find_by_name(name, rows, cache, heap) ==
    instance_from_db(fetchone({r \in rows : r[2] = name}), rows, cache, heap)

----------------------------------------------------------------------------
\* The writing methods when the database raises, at CURSOR.execute or at
\* CONN.commit: the lines that ran before the error.  A statement that ran
\* stays visible on the connection; the lines after the commit never run.

\* Variant of save_raised: the instance is registered before the commit.
save_raised_eager(at, self, rows, cache, heap) ==
    IF at = "execute" THEN Result(rows, cache, heap, None)
    ELSE save(self, rows, cache, heap)

save_raised(at, self, rows, cache, heap) ==
    IF at = "execute" THEN Result(rows, cache, heap, None)
    ELSE Result(save(self, rows, cache, heap).departments, cache, heap, None)

update_raised(at, self, rows, cache, heap) ==
    IF at = "execute" THEN Result(rows, cache, heap, None)
    ELSE Result(update(self, rows, cache, heap).departments, cache, heap, None)

delete_raised(at, self, rows, cache, heap) ==
    IF at = "execute" THEN Result(rows, cache, heap, None)
    ELSE Result(delete(self, rows, cache, heap).departments, cache, heap, None)

----------------------------------------------------------------------------
\* Bookkeeping of calls.

Record(op, self, arg, ret, list, raised) ==
    [op |-> op, self |-> self, arg |-> arg, ret |-> ret, list |-> list,
     raised |-> raised]

NoCall == Record("none", None, <<>>, None, <<>>, FALSE)

\* The call log is kept while no id is probed (probe.id = None).
Call(op, self, arg, ret, list, raised) ==
    IF probe.id = None THEN Record(op, self, arg, ret, list, raised) ELSE NoCall

\* The id a write call was about: the id create() assigned, the id delete()
\* removed, the id update() wrote to.
IdOf(call, heap) ==
    IF call.raised THEN Unset
    ELSE IF call.op = "create" THEN heap[call.ret].id
    ELSE IF call.op \in {"delete", "update"} THEN call.arg[1]
    ELSE Unset

\* prev after find_by_id(id_): the write call it follows, when that call was
\* about id_.
PrevAfter(op, arg) ==
    IF op = "find_by_id" /\ arg[1] = IdOf(last, objs) THEN last ELSE NoCall

\* probe.ret is what the latest find_by_id(probe.id) that returned gave back
\* and probe.since the strongest kind of call made since then ("delete" over
\* "write" over "none"); probe.first is what the returning call before that
\* one gave back, and probe.between the strongest kind of call made between
\* the two.
ProbeAfter(op, arg, ret, raised) ==
    IF probe.id = None THEN probe
    ELSE IF op = "find_by_id" /\ arg = <<probe.id>>
    THEN IF raised THEN probe
         ELSE [probe EXCEPT !.ret = ret, !.since = "none",
                            !.first = probe.ret, !.between = probe.since]
    ELSE IF probe.ret = Unset THEN probe
    ELSE IF op = "delete" THEN [probe EXCEPT !.since = "delete"]
    ELSE IF op \in {"save", "create", "update"} /\ probe.since = "none"
         THEN [probe EXCEPT !.since = "write"]
    ELSE probe

NotPure == [on |-> FALSE, live |-> {}]

PureAfter(op, self, ret) ==
    IF ~pure.on THEN NotPure
    ELSE IF op = "create" THEN [pure EXCEPT !.live = @ \cup {ret}]
    ELSE IF op = "delete" THEN [pure EXCEPT !.live = @ \ {self}]
    ELSE IF op = "get_all" THEN pure
    ELSE NotPure

\* The call returned: the state becomes r, the call is recorded.
Returns(op, self, arg, r, list) ==
    /\ Len(r.objs) <= MaxObj
    /\ departments' = r.departments
    /\ all' = r.all
    /\ objs' = r.objs
    /\ last' = Call(op, self, arg, IF list THEN None ELSE r.ret,
                    IF list THEN r.ret ELSE <<>>, FALSE)
    /\ prev' = PrevAfter(op, arg)
    /\ probe' = ProbeAfter(op, arg, r.ret, FALSE)
    /\ pure' = PureAfter(op, self, r.ret)
    /\ UNCHANGED tableExists

\* The statement raised (sqlite3.OperationalError: no such table): nothing
\* after CURSOR.execute ran.
Raises(op, self, arg) ==
    /\ last' = Call(op, self, arg, None, <<>>, TRUE)
    /\ prev' = PrevAfter(op, arg)
    /\ probe' = ProbeAfter(op, arg, None, TRUE)
    /\ pure' = NotPure
    /\ UNCHANGED <<tableExists, departments, all, objs>>

\* The database raised at stage `at` of a writing method: the state becomes
\* r, the error reaches the caller.
Fails(op, self, at, r) ==
    /\ tableExists
    /\ departments' = r.departments
    /\ all' = r.all
    /\ objs' = r.objs
    /\ last' = Call(op, self, <<at>>, None, <<>>, TRUE)
    /\ prev' = NoCall
    /\ probe' = ProbeAfter(op, <<at>>, None, TRUE)
    /\ pure' = NotPure
    /\ UNCHANGED tableExists

----------------------------------------------------------------------------
\* The state when the module is imported: the database file may already hold
\* a departments table with rows; the cache and the heap are empty.

NoProbe(i) ==
    [id |-> i, ret |-> Unset, since |-> "none", first |-> Unset, between |-> "none"]

Start ==
    /\ tableExists \in BOOLEAN
    /\ departments \in SUBSET Rows
    /\ tableExists = FALSE => departments = {}
    /\ \A r, s \in departments : r[1] = s[1] => r = s
    /\ all = EmptyMap
    /\ objs = <<>>
    /\ last = NoCall
    /\ prev = NoCall
    /\ pure = [on |-> tableExists /\ departments = {}, live |-> {}]

Init ==
    /\ Start
    /\ probe = NoProbe(None)

ProbeInit ==
    /\ Start
    /\ \E i \in Ids : probe = NoProbe(i)

create_table ==
    /\ tableExists' = TRUE
    /\ last' = Call("create_table", None, <<>>, None, <<>>, FALSE)
    /\ prev' = NoCall
    /\ pure' = NotPure
    /\ UNCHANGED <<departments, all, objs, probe>>

drop_table ==
    /\ tableExists' = FALSE
    /\ departments' = {}
    /\ last' = Call("drop_table", None, <<>>, None, <<>>, FALSE)
    /\ prev' = NoCall
    /\ pure' = NotPure
    /\ UNCHANGED <<all, objs, probe>>

\* Department(name, location): a transient instance.
New(name, location) ==
    /\ Len(objs) < MaxObj
    /\ objs' = Append(objs, Department(name, location, None))
    /\ last' = Call("new", Len(objs) + 1, <<>>, Len(objs) + 1, <<>>, FALSE)
    /\ prev' = NoCall
    /\ pure' = NotPure
    /\ UNCHANGED <<tableExists, departments, all, probe>>

\* Department(name, location, id): an instance built with a preset id.
NewWithId(name, location, id) ==
    /\ Len(objs) < MaxObj
    /\ objs' = Append(objs, Department(name, location, id))
    /\ last' = Call("new", Len(objs) + 1, <<>>, Len(objs) + 1, <<>>, FALSE)
    /\ prev' = NoCall
    /\ pure' = NotPure
    /\ UNCHANGED <<tableExists, departments, all, probe>>

\* d.name = ...; d.location = ...
SetAttr(self, name, location) ==
    /\ objs' = [objs EXCEPT ![self].name = name, ![self].location = location]
    /\ objs' # objs
    /\ last' = Call("setattr", self, <<>>, None, <<>>, FALSE)
    /\ prev' = NoCall
    /\ pure' = NotPure
    /\ UNCHANGED <<tableExists, departments, all, probe>>

Save(self) ==
    IF tableExists
    THEN /\ lastrowid(departments) <= MaxId
         /\ Returns("save", self, <<>>, save(self, departments, all, objs), FALSE)
    ELSE Raises("save", self, <<>>)

Create(name, location) ==
    IF tableExists
    THEN /\ lastrowid(departments) <= MaxId
         /\ Len(objs) < MaxObj
         /\ Returns("create", None, <<name, location>>,
                    create(name, location, departments, all, objs), FALSE)
    ELSE Raises("create", None, <<name, location>>)

\* The arguments logged for update(): self.id, and 1 when the call directly
\* follows an assignment to self's attributes.
UpdateArg(self) ==
    <<objs[self].id, IF last.op = "setattr" /\ last.self = self THEN 1 ELSE 0>>

Update(self) ==
    IF tableExists
    THEN Returns("update", self, UpdateArg(self), update(self, departments, all, objs), FALSE)
    ELSE Raises("update", self, UpdateArg(self))

Delete(self) ==
    IF tableExists
    THEN Returns("delete", self, <<objs[self].id>>, delete(self, departments, all, objs), FALSE)
    ELSE Raises("delete", self, <<objs[self].id>>)

InstanceFromDb(row) ==
    Returns("instance_from_db", None, row, instance_from_db(row, departments, all, objs), FALSE)

GetAll ==
    IF tableExists
    THEN Returns("get_all", None, <<>>, get_all(departments, all, objs), TRUE)
    ELSE Raises("get_all", None, <<>>)

FindById(id_) ==
    IF tableExists \/ id_ \in DOMAIN all
    THEN Returns("find_by_id", None, <<id_>>, find_by_id(id_, departments, all, objs), FALSE)
    ELSE Raises("find_by_id", None, <<id_>>)

FindByName(name) ==
    IF tableExists
    THEN Returns("find_by_name", None, <<name>>, find_by_name(name, departments, all, objs), FALSE)
    ELSE Raises("find_by_name", None, <<name>>)

\* The operations of the store, on instances the store itself produced.
StoreNext ==
    \/ create_table
    \/ drop_table
    \/ \E n \in Names, l \in Locations : New(n, l)
    \/ \E self \in Refs, n \in Names, l \in Locations : SetAttr(self, n, l)
    \/ \E self \in Refs : Save(self)
    \/ \E n \in Names, l \in Locations : Create(n, l)
    \/ \E self \in Refs : Update(self)
    \/ \E self \in Refs : Delete(self)
    \/ GetAll
    \/ \E k \in Ids \cup {None} : FindById(k)
    \/ \E n \in Names : FindByName(n)

Next ==
    \/ StoreNext
    \/ \E n \in Names, l \in Locations, k \in Ids : NewWithId(n, l, k)
    \/ \E row \in Rows \cup {NoRow} : InstanceFromDb(row)

Spec == Init /\ [][Next]_vars

Stages == {"execute", "commit"}

SaveFails(self, at) ==
    /\ at = "commit" => lastrowid(departments) <= MaxId
    /\ Fails("save", self, at, save_raised(at, self, departments, all, objs))

UpdateFails(self, at) ==
    Fails("update", self, at, update_raised(at, self, departments, all, objs))

DeleteFails(self, at) ==
    Fails("delete", self, at, delete_raised(at, self, departments, all, objs))

\* Next, and database errors in the writing methods.
FaultNext ==
    \/ Next
    \/ \E self \in Refs, at \in Stages : SaveFails(self, at)
    \/ \E self \in Refs, at \in Stages : UpdateFails(self, at)
    \/ \E self \in Refs, at \in Stages : DeleteFails(self, at)

FaultSpec == Init /\ [][FaultNext]_vars

\* Next, with save() called only on instances whose id is None.
GuardedNext ==
    \/ create_table
    \/ drop_table
    \/ \E n \in Names, l \in Locations : New(n, l)
    \/ \E n \in Names, l \in Locations, k \in Ids : NewWithId(n, l, k)
    \/ \E self \in Refs, n \in Names, l \in Locations : SetAttr(self, n, l)
    \/ \E self \in Refs : objs[self].id = None /\ Save(self)
    \/ \E n \in Names, l \in Locations : Create(n, l)
    \/ \E self \in Refs : Update(self)
    \/ \E self \in Refs : Delete(self)
    \/ \E row \in Rows \cup {NoRow} : InstanceFromDb(row)
    \/ GetAll
    \/ \E k \in Ids \cup {None} : FindById(k)
    \/ \E n \in Names : FindByName(n)

GuardedSpec == Init /\ [][GuardedNext]_vars

StoreSpec == Init /\ [][StoreNext]_vars

ProbeSpec == ProbeInit /\ [][Next]_vars

----------------------------------------------------------------------------
\* Properties.

Returned(op) == last.op = op /\ ~last.raised

\* C1, as stated: two calls of find_by_id(i) that return, with no delete()
\* call between them, give back the same reference.
C1_SameReferenceUnlessDelete ==
    (probe.first # Unset /\ probe.between # "delete") => probe.ret = probe.first

\* C1, amended: when find_by_id(i) has returned an object, a later
\* find_by_id(i) with no delete(), save(), create() or update() call between
\* the two returns the same reference.
C1_SameReferenceUnlessWrite ==
    (probe.first \notin {Unset, None} /\ probe.between = "none")
    => probe.ret = probe.first

\* Two calls of find_by_id(i) with no write between them gave the same object.
C1_Witness ==
    /\ probe.first \notin {Unset, None}
    /\ probe.between = "none"
    /\ probe.ret = probe.first

\* C2: for an id k in the cache, find_by_id(k), instance_from_db of a row
\* with id k and the element of get_all() for the row with id k are the
\* object cached under k; no instance is constructed for k and the entry for
\* k is not rebound.
C2_CachedLookupsReturnCachedObject ==
    [][ /\ (last'.op = "find_by_id" /\ ~last'.raised /\ last'.arg[1] \in DOMAIN all)
            => /\ last'.ret = all[last'.arg[1]]
               /\ all' = all
               /\ objs' = objs
        /\ (last'.op = "instance_from_db" /\ last'.arg # NoRow
                /\ last'.arg[1] \in DOMAIN all)
            => /\ last'.ret = all[last'.arg[1]]
               /\ all' = all
               /\ objs' = objs
        /\ (last'.op = "get_all" /\ ~last'.raised)
            => LET rows == fetchall(departments) IN
               /\ Len(last'.list) = Len(rows)
               /\ \A j \in 1..Len(rows) :
                      rows[j][1] \in DOMAIN all => last'.list[j] = all[rows[j][1]]
               /\ \A k \in DOMAIN all : all'[k] = all[k]
               /\ Len(objs') = Len(objs) + Cardinality(RowIds(departments) \ DOMAIN all)
               /\ SubSeq(objs', 1, Len(objs)) = objs
      ]_vars

\* find_by_id(k) answered with an instance although the table has no row k:
\* the answer can only have come from the cache.
C2_Witness ==
    /\ Returned("find_by_id")
    /\ last.ret # None
    /\ last.arg[1] \notin RowIds(departments)
    /\ all[last.arg[1]] = last.ret

\* C3: when delete() has returned on an instance whose id was old_id, the
\* instance's id is None, the table has no row old_id and the cache no key
\* old_id; a find_by_id(old_id) that directly follows returns None.
C3_DeleteProperty ==
    /\ Returned("delete")
        => /\ objs[last.self].id = None
           /\ last.arg[1] \notin RowIds(departments)
           /\ last.arg[1] \notin DOMAIN all
    /\ (last.op = "find_by_id" /\ prev.op = "delete")
        => /\ ~last.raised
           /\ last.ret = None
           /\ objs[prev.self].id = None
           /\ prev.arg[1] \notin RowIds(departments)
           /\ prev.arg[1] \notin DOMAIN all

C3_Witness ==
    /\ last.op = "find_by_id"
    /\ prev.op = "delete"
    /\ prev.arg[1] \in Ids
    /\ last.arg[1] = prev.arg[1]

\* C4: when id k is cached, instance_from_db(<<k, name, location>>) returns
\* the cached object whatever name and location are; the object's name and
\* location and the cache are as before.
C4_CacheAuthority ==
    [][ (last'.op = "instance_from_db" /\ last'.arg # NoRow
            /\ last'.arg[1] \in DOMAIN all)
        => /\ last'.ret = all[last'.arg[1]]
           /\ objs'[last'.ret].name = objs[last'.ret].name
           /\ objs'[last'.ret].location = objs[last'.ret].location
           /\ objs'[last'.ret].id = objs[last'.ret].id
           /\ DOMAIN all' = DOMAIN all
           /\ \A k \in DOMAIN all : all'[k] = all[k]
      ]_vars

\* instance_from_db returned an object whose name and location both differ
\* from the row it was given.
C4_Witness ==
    /\ Returned("instance_from_db")
    /\ last.arg # NoRow
    /\ last.ret # None
    /\ all[last.arg[1]] = last.ret
    /\ objs[last.ret].name # last.arg[2]
    /\ objs[last.ret].location # last.arg[3]

\* C5: a find_by_id(d.id) that directly follows d = create(name, location)
\* returns d, and d's name and location are the arguments of create.
C5_RoundTrip ==
    (last.op = "find_by_id" /\ prev.op = "create")
    => /\ ~last.raised
       /\ last.ret = prev.ret
       /\ objs[last.ret].name = prev.arg[1]
       /\ objs[last.ret].location = prev.arg[2]

C5_Witness ==
    /\ last.op = "find_by_id"
    /\ prev.op = "create"
    /\ last.arg[1] = objs[prev.ret].id
    /\ last.ret = prev.ret

\* C6, as stated: when save() or update() has returned on an instance whose
\* id is not None, the table has the row <<id, name, location>> of the instance.
C6_RowMatchesAfterSaveOrUpdate ==
    ((Returned("save") \/ Returned("update")) /\ objs[last.self].id # None)
    => <<objs[last.self].id, objs[last.self].name, objs[last.self].location>>
           \in departments

\* C6, amended: when save() has returned, or update() has returned on an
\* instance whose id is the id of a row of the table, the table has the row
\* <<id, name, location>> of the instance.
C6_RowMatchesAfterSaveOrUpdateOfRow ==
    (\/ Returned("save")
     \/ Returned("update") /\ objs[last.self].id \in RowIds(departments))
    => <<objs[last.self].id, objs[last.self].name, objs[last.self].location>>
           \in departments

\* update() returned right after an assignment to the instance's attributes,
\* and the instance's id is the id of a row.
C6_Witness ==
    /\ Returned("update")
    /\ last.arg[2] = 1
    /\ objs[last.self].id \in RowIds(departments)

\* C7: when d = create(name, location) has returned, d.id is the key the
\* database assigned to a row <<d.id, name, location>> that the call added
\* to the table, Department.all[d.id] is d, and d.id is 1 when the table was
\* empty.
C7_CreateRegistersNewRow ==
    [][ (last'.op = "create" /\ ~last'.raised)
        => LET d == last'.ret
               k == objs'[d].id
           IN  /\ d = Len(objs) + 1
               /\ k = lastrowid(departments)
               /\ k \notin RowIds(departments)
               /\ departments' = departments \cup {<<k, last'.arg[1], last'.arg[2]>>}
               /\ objs'[d] = Department(last'.arg[1], last'.arg[2], k)
               /\ k \in DOMAIN all'
               /\ all'[k] = d
               /\ departments = {} => k = 1
      ]_vars

\* create() returned the instance with id 1, the only row of the table.
C7_Witness ==
    /\ Returned("create")
    /\ objs[last.ret].id = 1
    /\ all[1] = last.ret
    /\ Cardinality(departments) = 1

\* C8: when d.update() has returned on an instance whose id is the id of a
\* row, that row holds d's name and location, and a find_by_id(d.id) that
\* directly follows returns an object with d's name and location.
C8_UpdateThenFind ==
    /\ (Returned("update") /\ last.arg[1] \in RowIds(departments))
        => RowWithId(departments, last.arg[1])
               = {<<last.arg[1], objs[last.self].name, objs[last.self].location>>}
    /\ (last.op = "find_by_id" /\ prev.op = "update"
            /\ prev.arg[1] \in RowIds(departments))
        => /\ ~last.raised
           /\ last.ret # None
           /\ objs[last.ret].name = objs[prev.self].name
           /\ objs[last.ret].location = objs[prev.self].location
           /\ RowWithId(departments, prev.arg[1])
                  = {<<prev.arg[1], objs[prev.self].name, objs[prev.self].location>>}

\* find_by_id(d.id) right after a d.update() that itself came right after an
\* assignment to d's attributes.
C8_Witness ==
    /\ last.op = "find_by_id"
    /\ prev.op = "update"
    /\ prev.arg[2] = 1
    /\ prev.arg[1] \in RowIds(departments)
    /\ last.ret # None

\* C9: get_all() returns one element per row of the table, in the order of
\* the rows, each the instance cached under the row's id; after create and
\* delete calls alone on a table that started empty, its elements are the
\* created instances that were not deleted, one each.
C9_GetAll ==
    Returned("get_all")
    => LET rows == fetchall(departments) IN
       /\ Len(last.list) = Cardinality(departments)
       /\ \A j \in 1..Len(rows) :
              /\ rows[j][1] \in DOMAIN all
              /\ last.list[j] = all[rows[j][1]]
       /\ pure.on
           => /\ {last.list[j] : j \in 1..Len(last.list)} = pure.live
              /\ Len(last.list) = Cardinality(pure.live)

\* get_all() after two create calls alone: both instances.
C9_Witness ==
    /\ Returned("get_all")
    /\ pure.on
    /\ Len(last.list) = 2
    /\ last.list[1] # last.list[2]

\* C10: every id in the cache has a row in the table.
C10_CachedIdsHaveRows == DOMAIN all \subseteq RowIds(departments)

\* C11: no two distinct instances hold the same id other than None.
C11_OneInstancePerId ==
    \A o1, o2 \in Refs : (o1 # o2 /\ objs[o1].id = objs[o2].id) => objs[o1].id = None

\* C12: find_by_id(k) with k in the cache returns the cached instance and
\* touches nothing, also when the table is gone or has no row k; with k not
\* in the cache it queries the table (and raises when there is none), returns
\* None when no row has id k, and otherwise the instance instance_from_db
\* builds from that row and registers under k.
C12_FindByIdCacheFirst ==
    [][ last'.op = "find_by_id"
        => LET k == last'.arg[1]
               hit == RowWithId(departments, k)
           IN  /\ k \in DOMAIN all
                   => /\ ~last'.raised
                      /\ last'.ret = all[k]
                      /\ all' = all /\ objs' = objs /\ departments' = departments
               /\ (k \notin DOMAIN all /\ ~tableExists)
                   => /\ last'.raised
                      /\ all' = all /\ objs' = objs
               /\ (k \notin DOMAIN all /\ tableExists /\ hit = {})
                   => /\ ~last'.raised
                      /\ last'.ret = None
                      /\ all' = all /\ objs' = objs
               /\ (k \notin DOMAIN all /\ tableExists /\ hit # {})
                   => /\ ~last'.raised
                      /\ last'.ret = Len(objs) + 1
                      /\ objs' = Append(objs, Department(fetchone(hit)[2],
                                                         fetchone(hit)[3], k))
                      /\ DOMAIN all' = DOMAIN all \cup {k}
                      /\ all'[k] = last'.ret
      ]_vars

\* find_by_id(k) returned an instance although there is no table.
C12_Witness ==
    /\ Returned("find_by_id")
    /\ ~tableExists
    /\ last.ret # None
    /\ all[last.arg[1]] = last.ret

\* C13: find_by_name(n) returns None exactly when no row has name n;
\* otherwise it returns what instance_from_db gives for the first such row:
\* the instance cached under the row's id, whatever its name in memory, or a
\* new instance built from the row.  Names held in memory only do not count.
C13_FindByNameByTable ==
    [][ (last'.op = "find_by_name" /\ ~last'.raised)
        => LET hits == {r \in departments : r[2] = last'.arg[1]}
               row == fetchone(hits)
           IN  /\ last'.ret = None <=> hits = {}
               /\ hits = {} => (all' = all /\ objs' = objs)
               /\ (hits # {} /\ row[1] \in DOMAIN all)
                   => /\ last'.ret = all[row[1]]
                      /\ all' = all /\ objs' = objs
               /\ (hits # {} /\ row[1] \notin DOMAIN all)
                   => /\ last'.ret = Len(objs) + 1
                      /\ objs' = Append(objs, Department(row[2], row[3], row[1]))
                      /\ all'[row[1]] = last'.ret
      ]_vars

\* find_by_name(n) returned a cached instance whose name in memory is not n,
\* while another cached instance is named n in memory.
C13_Witness ==
    /\ Returned("find_by_name")
    /\ last.ret # None
    /\ objs[last.ret].name # last.arg[1]
    /\ \E k \in DOMAIN all : objs[all[k]].name = last.arg[1]

\* C14: save() on an instance whose id k is the id of a row adds one row
\* under a new id k' # k with the instance's name and location, leaves every
\* other row (the row k among them) as it was, sets self.id to k' and binds
\* the cache entry for k' to self; every other cache entry, the one for k
\* among them, is as before, so an entry for k that referred to self still does.
C14_SaveAgainDuplicates ==
    [][ (last'.op = "save" /\ ~last'.raised
            /\ objs[last'.self].id \in RowIds(departments))
        => LET self == last'.self
               k == objs[self].id
               k2 == objs'[self].id
           IN  /\ k2 # k
               /\ k2 \notin RowIds(departments)
               /\ departments' = departments
                      \cup {<<k2, objs[self].name, objs[self].location>>}
               /\ RowWithId(departments', k) = RowWithId(departments, k)
               /\ DOMAIN all' = DOMAIN all \cup {k2}
               /\ all'[k2] = self
               /\ \A j \in DOMAIN all : j # k2 => all'[j] = all[j]
               /\ k \in DOMAIN all => (k \in DOMAIN all' /\ all'[k] = all[k])
               /\ (k \in DOMAIN all /\ all[k] = self) => all'[k] = self
               /\ objs' = [objs EXCEPT ![self].id = k2]
      ]_vars

\* save() returned on an instance now filed under both ids, with two rows of
\* its name and location.
C14_Witness ==
    /\ Returned("save")
    /\ objs[last.self].id = 2
    /\ 1 \in DOMAIN all /\ all[1] = last.self
    /\ 2 \in DOMAIN all /\ all[2] = last.self
    /\ departments = {<<1, objs[last.self].name, objs[last.self].location>>,
                      <<2, objs[last.self].name, objs[last.self].location>>}

\* C15: delete() removes the row with id self.id, removes the cache key
\* self.id (nothing when it is no key) and sets self.id to None; every other
\* row and cache entry, self's name and location, and every other instance
\* (an instance holding the same id too) are as before.
C15_DeleteFrame ==
    [][ (last'.op = "delete" /\ ~last'.raised)
        => LET self == last'.self
               k == objs[self].id
           IN  /\ departments' = departments \ RowWithId(departments, k)
               /\ DOMAIN all' = DOMAIN all \ {k}
               /\ \A j \in DOMAIN all' : all'[j] = all[j]
               /\ k \notin DOMAIN all => all' = all
               /\ Len(objs') = Len(objs)
               /\ objs'[self] = [objs[self] EXCEPT !.id = None]
               /\ \A o \in Refs : o # self => objs'[o] = objs[o]
               /\ tableExists' = tableExists
      ]_vars

\* delete() returned and another instance still holds the deleted id.
C15_Witness ==
    /\ Returned("delete")
    /\ last.arg[1] # None
    /\ objs[last.self].id = None
    /\ \E o \in Refs : o # last.self /\ objs[o].id = last.arg[1]

\* C16: update() leaves the key set of the cache and every instance as they
\* were; when self.id is a key that entry becomes self and the others stay,
\* when it is no key the cache is unchanged; only the row with id self.id
\* changes, so with no such row the table is unchanged.
C16_UpdateFrame ==
    [][ (last'.op = "update" /\ ~last'.raised)
        => LET self == last'.self
               k == objs[self].id
           IN  /\ DOMAIN all' = DOMAIN all
               /\ objs' = objs
               /\ k \in DOMAIN all => all'[k] = self
               /\ \A j \in DOMAIN all : j # k => all'[j] = all[j]
               /\ k \notin DOMAIN all => all' = all
               /\ k \notin RowIds(departments) => departments' = departments
               /\ \A r \in departments : r[1] # k => r \in departments'
               /\ RowIds(departments') = RowIds(departments)
               /\ tableExists' = tableExists
      ]_vars

\* update() returned on an instance whose id is no key of the cache and no
\* id of a row.
C16_Witness ==
    /\ Returned("update")
    /\ last.arg[1] # None
    /\ last.arg[1] \notin DOMAIN all
    /\ last.arg[1] \notin RowIds(departments)

\* C17: when save(), update() or delete() raises, at the statement or at the
\* commit, the error reaches the caller and the cache and every instance's
\* id (the whole instance) are as before the call: they are assigned only
\* after the commit.
C17_RaiseLeavesCacheAndId ==
    [][ (last'.op \in {"save", "update", "delete"} /\ last'.raised)
        => /\ all' = all
           /\ objs' = objs
      ]_vars

\* save() raised at the commit: its row is in the table, the instance has no
\* id and the row's id is no key of the cache.
C17_Witness ==
    /\ last.op = "save" /\ last.raised /\ last.arg = <<"commit">>
    /\ objs[last.self].id = None
    /\ \E r \in departments :
           /\ r[1] \notin DOMAIN all
           /\ r[2] = objs[last.self].name
           /\ r[3] = objs[last.self].location

\* C18: while save() is called only on instances whose id is None, every
\* cache entry is filed under the id of its instance: Department.all[k].id = k
\* for every key k.
C18_EntriesFiledUnderOwnId ==
    \A k \in DOMAIN all : objs[all[k]].id = k

\* save() on an instance without an id filed it under its new id, next to
\* the entry of another instance.
C18_Witness ==
    /\ Returned("save")
    /\ objs[last.self].id = 2
    /\ all[2] = last.self
    /\ 1 \in DOMAIN all /\ all[1] # last.self

\* C19: find_by_id, find_by_name, get_all and instance_from_db leave the
\* table, every existing instance and every existing cache entry as they
\* were; all they do to the cache is add, for an id that was no key, an entry
\* bound to an instance built in the call with that id; a call that returns
\* None (a null row) or raises changes nothing.
C19_ReadsOnlyAddEntries ==
    [][ last'.op \in {"find_by_id", "find_by_name", "get_all", "instance_from_db"}
        => /\ departments' = departments
           /\ tableExists' = tableExists
           /\ Len(objs') >= Len(objs)
           /\ SubSeq(objs', 1, Len(objs)) = objs
           /\ DOMAIN all \subseteq DOMAIN all'
           /\ \A k \in DOMAIN all : all'[k] = all[k]
           /\ \A k \in DOMAIN all' \ DOMAIN all :
                  /\ all'[k] > Len(objs)
                  /\ objs'[all'[k]].id = k
           /\ Len(objs') - Len(objs) = Cardinality(DOMAIN all' \ DOMAIN all)
           /\ (last'.op # "get_all" /\ last'.ret = None)
                  => (all' = all /\ objs' = objs)
      ]_vars

\* instance_from_db returned the newest instance, built from a row that is
\* not in the table and filed under the row's id, next to an older entry.
C19_Witness ==
    /\ Returned("instance_from_db")
    /\ last.arg # NoRow
    /\ last.arg \notin departments
    /\ last.ret = 2
    /\ Len(objs) = 2
    /\ objs[2] = Department(last.arg[2], last.arg[3], last.arg[1])
    /\ all[last.arg[1]] = 2
    /\ \E k \in DOMAIN all : all[k] = 1

====
